---- MODULE Spec2Model ----
(***************************************************************************)
(* Model of ApartmentDatabase (src/apartment.py): the record store         *)
(* _apartments, the five inverted indices _indices, load_from_file and     *)
(* search.  Positions are 0-based as in the Python list; the sequence      *)
(* apartments keeps the record of position p at apartments[p + 1].         *)
(***************************************************************************)
EXTENDS Integers, Sequences, FiniteSets, TLC

(* ------------------------------ bounds --------------------------------- *)
\* longest input list handed to load_from_file
MaxRecords == 2
\* largest number of criteria in one search call
MaxCriteria == 2

(* --------------------------- JSON values -------------------------------- *)
\* A JSON value as Python sees it: an int, a str or a list (unhashable).
\* Both payload fields are always present so that values of different kinds
\* compare unequal, as they do in Python.
IntV(i) == [kind |-> "int", n |-> i, s |-> ""]
StrV(t) == [kind |-> "str", n |-> 0, s |-> t]
ListV == [kind |-> "list", n |-> 0, s |-> ""]

\* hash(key) succeeds: dict membership and set-default work on ints and strs,
\* and raise TypeError on a list.
Hashable(v) == v.kind # "list"

\* The strings int() accepts, and their values.
NumericStrings == {"1", "2"}
IntOfString(t) == CASE t = "1" -> 1 [] t = "2" -> 2 [] OTHER -> 0

\* int(v): "ok" with the integer, or the exception raised.
PyInt(v) ==
  CASE v.kind = "int" -> [exc |-> "ok", n |-> v.n]
    [] v.kind = "str" /\ v.s \in NumericStrings -> [exc |-> "ok", n |-> IntOfString(v.s)]
    [] v.kind = "str" -> [exc |-> "ValueError", n |-> 0]
    [] OTHER -> [exc |-> "TypeError", n |-> 0]

(* ------------------------------ records --------------------------------- *)
IntFields == <<"total_area", "rooms", "kitchen_area", "balconies">>
Fields == {"total_area", "rooms", "kitchen_area", "balconies", "metro"}
\* order of the five _add_to_index calls of _add_apartment
FieldOrder == <<"total_area", "rooms", "kitchen_area", "balconies", "metro">>

\* Apartment(...): the five values as given, no validation.
Apartment(ta, r, ka, b, m) ==
  [total_area |-> ta, rooms |-> r, kitchen_area |-> ka, balconies |-> b, metro |-> m]

\* An input record (a JSON object): a function from the keys present to values.
Raw(ta, r, ka, b, m) ==
  [total_area |-> ta, rooms |-> r, kitchen_area |-> ka, balconies |-> b, metro |-> m]
Without(raw, f) == [k \in (DOMAIN raw) \ {f} |-> raw[k]]

\* The input records the model draws from: well-formed records in the shape
\* of create_sample_data (one with an integer given as a string), a record
\* with an empty metro, and records malformed in one field.
GoodRecords ==
  { Raw(IntV(1), IntV(1), IntV(1), IntV(1), StrV("A")),
    Raw(IntV(2), IntV(1), IntV(2), IntV(2), StrV("B")),
    Raw(IntV(1), StrV("2"), IntV(1), IntV(2), StrV("A")) }
EmptyMetroRecord == Raw(IntV(2), IntV(2), IntV(2), IntV(1), StrV(""))
MissingFieldRecord ==
  Without(Raw(IntV(1), IntV(1), IntV(1), IntV(1), StrV("A")), "kitchen_area")
NotIntegerRecord == Raw(IntV(1), IntV(1), IntV(1), StrV("x"), StrV("A"))
ListMetroRecord == Raw(IntV(1), IntV(2), IntV(1), IntV(1), ListV)
RawRecords ==
  GoodRecords \cup {EmptyMetroRecord, MissingFieldRecord, NotIntegerRecord, ListMetroRecord}

SeqsUpTo(S, n) == UNION {[1..k -> S] : k \in 0..n}

(* ------------------------------- state ---------------------------------- *)
VARIABLES
  apartments,   \* self._apartments
  indices,      \* self._indices: field -> (value -> set of positions)
  status,       \* outcome of the last call: "ok" or the exception raised
  loaded,       \* the data of the last load_from_file call
  last,         \* the last call: "init", "load" or "search"
  result        \* the list the last call returned, if it was a search; else empty

vars == <<apartments, indices, status, loaded, last, result>>

EmptyDict == [k \in {} |-> {}]
EmptyIndices == [f \in Fields |-> EmptyDict]

\* ApartmentDatabase.__init__
Init ==
  /\ apartments = <<>>
  /\ indices = EmptyIndices
  /\ status = "ok"
  /\ loaded = <<>>
  /\ last = "init"
  /\ result = <<>>

(* ------------------------------- load ----------------------------------- *)
\* the bucket replaced by {apartment_index} instead of added to
AddToDict_Overwrite(d, key, p) ==
  [k \in (DOMAIN d) \cup {key} |-> IF k = key THEN {p} ELSE d[k]]

\* self._indices[index_name][key].add(apartment_index), creating the bucket
AddToDict(d, key, p) ==
  [k \in (DOMAIN d) \cup {key} |->
     IF k = key THEN (IF key \in DOMAIN d THEN d[key] ELSE {}) \cup {p} ELSE d[k]]

_add_to_index(idx, index_name, key, p) ==
  [idx EXCEPT ![index_name] = AddToDict(idx[index_name], key, p)]

\* The _add_to_index calls of _add_apartment from the k-th on, in order; the
\* first unhashable key raises TypeError and leaves the earlier ones done.
RECURSIVE AddToIndices(_, _, _, _)
AddToIndices(idx, apt, p, k) ==
  IF k > Len(FieldOrder) THEN [indices |-> idx, exc |-> "ok"]
  ELSE IF ~Hashable(apt[FieldOrder[k]]) THEN [indices |-> idx, exc |-> "TypeError"]
  ELSE AddToIndices(_add_to_index(idx, FieldOrder[k], apt[FieldOrder[k]], p), apt, p, k + 1)

\* apartment_index taken after the append instead of before
_add_apartment_IndexAfterAppend(apts, idx, apt) ==
  LET p == Len(apts) + 1
      r == AddToIndices(idx, apt, p, 1)
  IN [apartments |-> Append(apts, apt), indices |-> r.indices, exc |-> r.exc]

_add_apartment(apts, idx, apt) ==
  LET p == Len(apts)
      r == AddToIndices(idx, apt, p, 1)
  IN [apartments |-> Append(apts, apt), indices |-> r.indices, exc |-> r.exc]

\* The exception raised while evaluating the arguments of Apartment(...) for
\* one input record, field by field in source order, or "ok".
RECURSIVE IntFieldsExc(_, _)
IntFieldsExc(raw, k) ==
  IF k > Len(IntFields) THEN "ok"
  ELSE IF IntFields[k] \notin DOMAIN raw THEN "KeyError"
  ELSE IF PyInt(raw[IntFields[k]]).exc # "ok" THEN PyInt(raw[IntFields[k]]).exc
  ELSE IntFieldsExc(raw, k + 1)

BuildExc(raw) ==
  IF IntFieldsExc(raw, 1) # "ok" THEN IntFieldsExc(raw, 1)
  ELSE IF "metro" \notin DOMAIN raw THEN "KeyError"
  ELSE "ok"

BuildApartment(raw) ==
  Apartment(IntV(PyInt(raw.total_area).n), IntV(PyInt(raw.rooms).n),
            IntV(PyInt(raw.kitchen_area).n), IntV(PyInt(raw.balconies).n), raw.metro)

\* The loop body completes for this input record: nothing raises.
LoadsCleanly(raw) == BuildExc(raw) = "ok" /\ Hashable(raw.metro)

\* The inputs of load_from_file.  The loop never reads past the first record
\* that raises, so inputs are drawn without an unread tail: a record that
\* raises is the last one of its input.
Inputs ==
  {data \in SeqsUpTo(RawRecords, MaxRecords) :
     \A i \in 1..(Len(data) - 1) : LoadsCleanly(data[i])}

\* The for loop of load_from_file from the k-th input record on.
RECURSIVE LoadLoop(_, _, _, _)
LoadLoop(data, k, apts, idx) ==
  IF k > Len(data) THEN [apartments |-> apts, indices |-> idx, exc |-> "ok"]
  ELSE IF BuildExc(data[k]) # "ok"
       THEN [apartments |-> apts, indices |-> idx, exc |-> BuildExc(data[k])]
  ELSE LET a == _add_apartment(apts, idx, BuildApartment(data[k]))
       IN IF a.exc # "ok" THEN a ELSE LoadLoop(data, k + 1, a.apartments, a.indices)

\* self._indices after _clear_indices(): every index emptied
_clear_indices(idx) == [f \in DOMAIN idx |-> EmptyDict]

\* load_from_file without the call of _clear_indices
LoadResult_KeepIndices(apts, idx, data) == LoadLoop(data, 1, <<>>, idx)

\* self._apartments.clear(); self._clear_indices(); then the loop
LoadResult(apts, idx, data) == LoadLoop(data, 1, <<>>, _clear_indices(idx))

load_from_file(data) ==
  \E r \in {LoadResult(apartments, indices, data)} :
     /\ apartments' = r.apartments
     /\ indices' = r.indices
     /\ status' = r.exc
     /\ loaded' = data
     /\ last' = "load"
     /\ result' = <<>>

Load == \E data \in Inputs : load_from_file(data)

(* ------------------------------ search ---------------------------------- *)
Operators == {"AND", "OR"}
UnknownField == "unknown_field"

\* The values a criterion may ask for, per attribute name.
SearchValues(f) ==
  IF f = "metro" THEN {StrV("A"), StrV("B")}
  ELSE IF f = UnknownField THEN {IntV(1)}
  ELSE {IntV(1), IntV(2)}

Criterion == UNION {{[field |-> f, value |-> v] : v \in SearchValues(f)} :
                    f \in Fields \cup {UnknownField}}

\* A criteria dict in iteration (insertion) order: its keys are distinct.
\* (Written as the set of its elements, to have it enumerated once.)
Criteria ==
  {c : c \in {d \in SeqsUpTo(Criterion, MaxCriteria) :
                \A i, j \in 1..Len(d) : d[i].field = d[j].field => i = j}}

\* an unknown field answered with the rooms index instead of None
_get_index_for_field_Fallback(idx, field) ==
  IF field \in DOMAIN idx THEN [none |-> FALSE, index |-> idx[field]]
  ELSE [none |-> FALSE, index |-> idx["rooms"]]

\* self._indices.get(field): the index, or None for an unknown field
_get_index_for_field(idx, field) ==
  IF field \in DOMAIN idx THEN [none |-> FALSE, index |-> idx[field]]
  ELSE [none |-> TRUE, index |-> EmptyDict]

\* index.get(value, set())
DictGet(d, value) == IF value \in DOMAIN d THEN d[value] ELSE {}

NoneSet == [none |-> TRUE, ids |-> {}]
SomeSet(S) == [none |-> FALSE, ids |-> S]

\* the AND branch uniting instead of intersecting
SearchStep_AndUnites(idx, acc, crit, op) ==
  LET index == _get_index_for_field(idx, crit.field)
      current_indices == DictGet(index.index, crit.value)
  IN IF index.none THEN acc
     ELSE IF acc.none THEN SomeSet(current_indices)
     ELSE SomeSet(acc.ids \cup current_indices)

\* the OR branch intersecting instead of uniting
SearchStep_OrIntersects(idx, acc, crit, op) ==
  LET index == _get_index_for_field(idx, crit.field)
      current_indices == DictGet(index.index, crit.value)
  IN IF index.none THEN acc
     ELSE IF acc.none THEN SomeSet(current_indices)
     ELSE SomeSet(acc.ids \cap current_indices)

\* an unknown field contributing the empty set instead of being skipped
SearchStep_UnknownIsEmpty(idx, acc, crit, op) ==
  LET index == _get_index_for_field(idx, crit.field)
      current_indices == DictGet(index.index, crit.value)
  IN IF acc.none THEN SomeSet(current_indices)
     ELSE IF op = "AND" THEN SomeSet(acc.ids \cap current_indices)
     ELSE SomeSet(acc.ids \cup current_indices)

\* One iteration of the for loop of search on the running result_indices.
SearchStep(idx, acc, crit, op) ==
  LET index == _get_index_for_field(idx, crit.field)
      current_indices == DictGet(index.index, crit.value)
  IN IF index.none THEN acc
     ELSE IF acc.none THEN SomeSet(current_indices)
     ELSE IF op = "AND" THEN SomeSet(acc.ids \cap current_indices)
     ELSE SomeSet(acc.ids \cup current_indices)

\* The for loop of search from the k-th criterion on.
RECURSIVE SearchLoop(_, _, _, _, _)
SearchLoop(idx, criteria, k, acc, op) ==
  IF k > Len(criteria) THEN acc
  ELSE SearchLoop(idx, criteria, k + 1, SearchStep(idx, acc, criteria[k], op), op)

\* result_indices at the end of the loop (none: still None)
ResultIndices(idx, criteria, op) == SearchLoop(idx, criteria, 1, NoneSet, op)

\* sorted(S) for a set of integers
Min(S) == CHOOSE x \in S : \A y \in S : x <= y
RECURSIVE Sorted(_)
Sorted(S) == IF S = {} THEN <<>> ELSE <<Min(S)>> \o Sorted(S \ {Min(S)})

\* [self._apartments[i] for i in sorted(ids)]: IndexError on a position
\* outside the list
Materialize(apts, ids) ==
  IF \E i \in ids : i < 0 \/ i >= Len(apts)
  THEN [exc |-> "IndexError", list |-> <<>>]
  ELSE [exc |-> "ok", list |-> [k \in 1..Cardinality(ids) |-> apts[Sorted(ids)[k] + 1]]]

\* search(criteria, operator) on a store and its indices
SearchOn(apts, idx, criteria, op) ==
  IF criteria = <<>> THEN [exc |-> "ok", list |-> <<>>]
  ELSE LET result_indices == ResultIndices(idx, criteria, op)
       IN IF result_indices.none \/ result_indices.ids = {}
          THEN [exc |-> "ok", list |-> <<>>]
          ELSE Materialize(apts, result_indices.ids)

\* What search writes to self._indices.  result_indices is a reference: the
\* in-place operators &= and |= change the set it refers to, which is a
\* bucket of an index if (and only if) result_indices shares it.
NoBucket == [shared |-> FALSE, field |-> "", value |-> IntV(0)]

\* result_indices = current_indices without .copy(): the bucket itself
SeedRef_NoCopy(idx, crit) ==
  IF crit.value \in DOMAIN idx[crit.field]
  THEN [shared |-> TRUE, field |-> crit.field, value |-> crit.value]
  ELSE NoBucket

\* result_indices = current_indices.copy(): a set of its own
SeedRef(idx, crit) == NoBucket

\* the index after index.get(value, set()): get inserts nothing
DictAfterGet(d, value) == d

\* self._indices after an in-place update of the set behind ref
WriteThrough(idx, ref, ids) ==
  IF ref.shared THEN [idx EXCEPT ![ref.field][ref.value] = ids] ELSE idx

\* One iteration of the for loop of search on the heap: the indices, the
\* running result and the set result_indices refers to.
SearchEffectStep(h, crit, op) ==
  IF _get_index_for_field(h.indices, crit.field).none THEN h
  ELSE IF h.acc.none
  THEN [indices |-> [h.indices EXCEPT ![crit.field] = DictAfterGet(@, crit.value)],
        acc |-> SearchStep(h.indices, h.acc, crit, op),
        ref |-> SeedRef(h.indices, crit)]
  ELSE [indices |-> WriteThrough([h.indices EXCEPT ![crit.field] = DictAfterGet(@, crit.value)],
                                 h.ref, SearchStep(h.indices, h.acc, crit, op).ids),
        acc |-> SearchStep(h.indices, h.acc, crit, op),
        ref |-> h.ref]

RECURSIVE SearchEffectLoop(_, _, _, _)
SearchEffectLoop(h, criteria, k, op) ==
  IF k > Len(criteria) THEN h
  ELSE SearchEffectLoop(SearchEffectStep(h, criteria[k], op), criteria, k + 1, op)

\* self._indices when search(criteria, operator) returns
IndicesAfterSearch(idx, criteria, op) ==
  SearchEffectLoop([indices |-> idx, acc |-> NoneSet, ref |-> NoBucket], criteria, 1, op).indices

search(criteria, op) ==
  \E r \in {SearchOn(apartments, indices, criteria, op)} :
     /\ result' = r.list
     /\ status' = r.exc
     /\ last' = "search"
     /\ indices' = IndicesAfterSearch(indices, criteria, op)
     /\ UNCHANGED <<apartments, loaded>>

Search == \E criteria \in Criteria, op \in Operators : search(criteria, op)

Next == Load \/ Search

Spec == Init /\ [][Next]_vars

(* ======================= properties of the engine ======================= *)
Positions == 0..(Len(apartments) - 1)

\* The apartments at the positions of S, in ascending order of position:
\* the k-th is the one with k - 1 positions of S below it.
InOrder(S) ==
  [k \in 1..Cardinality(S) |->
     apartments[(CHOOSE p \in S : Cardinality({q \in S : q < p}) = k - 1) + 1]]

\* The outcome of a search that raises nothing and returns the apartments at
\* the positions of S in ascending order.
Returns(S) ==
  IF S \subseteq Positions THEN [exc |-> "ok", list |-> InOrder(S)]
  ELSE [exc |-> "IndexError", list |-> <<>>]

\* The identifier set of search({f: v}): the positions it returns.
IdsOfSingle(crit) == ResultIndices(indices, <<crit>>, "AND").ids

KnownCriteria == {c : c \in {d \in Criteria : \A i \in 1..Len(d) : d[i].field \in Fields}}
UnknownOnly == {c : c \in {d \in Criteria : \A i \in 1..Len(d) : d[i].field \notin Fields}}
Pairs == {c : c \in {d \in KnownCriteria : Len(d) = 2}}

Here(criteria, op) == SearchOn(apartments, indices, criteria, op)

\* The record at position p is in the bucket of its own value, and in no
\* other bucket, of the index of attribute a.
Indexed(p, a) ==
  LET v == apartments[p + 1][a]
  IN /\ v \in DOMAIN indices[a]
     /\ p \in indices[a][v]
     /\ \A w \in DOMAIN indices[a] : w # v => p \notin indices[a][w]

IndexConsistent == \A p \in Positions : \A a \in Fields : Indexed(p, a)

Empty == apartments = <<>> /\ \A f \in Fields : DOMAIN indices[f] = {}
Loaded == apartments # <<>> /\ IndexConsistent

\* C1: in every reachable state, every record at position p is in
\* index[a][record.a] and in no other bucket of index[a], for each of the
\* five attributes a.
C1_IndexConsistency == IndexConsistent

\* C2: search({f1:v1, f2:v2}, AND) returns, without raising, the records at
\* the intersection of the identifier sets of search({f1:v1}) and
\* search({f2:v2}), in ascending identifier order.
C2_AndIsIntersection ==
  \A c \in Pairs :
    Here(c, "AND") = Returns(IdsOfSingle(c[1]) \cap IdsOfSingle(c[2]))

\* A search with AND over two attributes has returned a non-empty
\* intersection that is smaller than one of the two single results.
C2_Witness ==
  /\ last = "search" /\ result # <<>>
  /\ \E c \in Pairs :
       /\ result = Here(c, "AND").list
       /\ IdsOfSingle(c[1]) \cap IdsOfSingle(c[2]) # IdsOfSingle(c[1])
       /\ Len(result) = Cardinality(IdsOfSingle(c[1]) \cap IdsOfSingle(c[2]))

\* C3: search({f1:v1, f2:v2}, OR) returns, without raising, the records at
\* the union of the identifier sets of search({f1:v1}) and search({f2:v2}),
\* in ascending identifier order.
C3_OrIsUnion ==
  \A c \in Pairs :
    Here(c, "OR") = Returns(IdsOfSingle(c[1]) \cup IdsOfSingle(c[2]))

\* A search with OR over two attributes has returned a union larger than
\* each of the two single results.
C3_Witness ==
  /\ last = "search"
  /\ \E c \in Pairs :
       /\ result = Here(c, "OR").list
       /\ Len(result) > Cardinality(IdsOfSingle(c[1]))
       /\ Len(result) > Cardinality(IdsOfSingle(c[2]))

\* The fold of C4 as stated: every criterion contributes a set, the empty
\* one for an unrecognized attribute or a value without bucket; the first
\* set seeds the result and the later ones are intersected or united into it.
CriterionSet(crit) ==
  IF crit.field \in Fields THEN DictGet(indices[crit.field], crit.value) ELSE {}

RECURSIVE FoldOfAll(_, _, _)
FoldOfAll(criteria, k, op) ==
  IF k = 1 THEN CriterionSet(criteria[1])
  ELSE IF op = "AND" THEN FoldOfAll(criteria, k - 1, op) \cap CriterionSet(criteria[k])
  ELSE FoldOfAll(criteria, k - 1, op) \cup CriterionSet(criteria[k])

\* C4 (as stated): a criterion with an unrecognized attribute contributes the
\* empty set to the fold, for both operators and at any position.
C4_UnknownIsEmptySet ==
  \A c \in Criteria : \A op \in Operators :
    c # <<>> => Here(c, op) = Returns(FoldOfAll(c, Len(c), op))

Recognized(crit) == crit.field \in Fields

\* C4 (amended): a criterion with an unrecognized attribute is skipped: the
\* search raises nothing and returns what it returns for the criteria
\* without it, for both operators and at any position; under OR, and only
\* there, that is what contributing the empty set gives.
C4_UnknownIsSkipped ==
  \A c \in Criteria \ KnownCriteria : \A op \in Operators :
    /\ Here(c, op).exc = "ok"
    /\ Here(c, op) = Here(SelectSeq(c, Recognized), op)
    /\ op = "OR" => Here(c, op) = Returns(FoldOfAll(c, Len(c), op))

\* A search with AND whose criteria hold an unrecognized attribute has
\* returned records: the unrecognized criterion emptied nothing.
C4_Witness ==
  /\ last = "search" /\ result # <<>>
  /\ \E c \in Criteria \ KnownCriteria :
       /\ result = Here(c, "AND").list
       /\ FoldOfAll(c, Len(c), "AND") = {}

\* What load raises on a missing field (KeyError) or on an integer field
\* that does not parse (ValueError).
InvalidRecordErrors == {"KeyError", "ValueError"}

\* C5: a load that fails on an invalid input record (missing field or failed
\* integer coercion) leaves the store and the five indices as they were
\* before the call.
C5_FailedLoadCommitsNothing ==
  [][(last' = "load" /\ status' \in InvalidRecordErrors)
       => (apartments' = apartments /\ indices' = indices)]_vars

\* The validity of an input record as C6 states it: the five fields are
\* present, the integer fields parse as integers, metro is a non-empty string.
WellFormed(raw) ==
  /\ DOMAIN raw = Fields
  /\ \A k \in 1..Len(IntFields) :
       \/ raw[IntFields[k]].kind = "int"
       \/ raw[IntFields[k]].kind = "str" /\ raw[IntFields[k]].s \in NumericStrings
  /\ raw.metro.kind = "str" /\ raw.metro.s # ""

\* C6: a load whose input holds a record that is not well-formed fails with
\* an error, and the store holds no record with a metro that is not a
\* non-empty string.
C6_InvalidRecordFailsLoad ==
  (last = "load" /\ \E i \in 1..Len(loaded) : ~WellFormed(loaded[i]))
    => /\ status # "ok"
       /\ \A p \in Positions :
            apartments[p + 1].metro.kind = "str" /\ apartments[p + 1].metro.s # ""

\* C7: a search whose criteria hold no recognized attribute (empty criteria
\* or unrecognized names only) returns the empty list and raises nothing,
\* for both operators, in every state.
C7_NoRecognizedAttribute ==
  \A c \in UnknownOnly : \A op \in Operators :
    Here(c, op) = [exc |-> "ok", list |-> <<>>]

\* A search has returned the empty list on a store that holds records, as
\* the search for an unrecognized attribute does there.
C7_Witness ==
  /\ last = "search" /\ status = "ok" /\ result = <<>>
  /\ apartments # <<>>
  /\ \E f \in Fields : \E v \in DOMAIN indices[f] : indices[f][v] # {}
  /\ \E c \in UnknownOnly : c # <<>> /\ result = Here(c, "OR").list

\* The store and the indices a list of built apartments stands for.
StoreOf(data) == [k \in 1..Len(data) |-> BuildApartment(data[k])]
IndexOf(apts) ==
  [f \in Fields |->
     [v \in {apts[k][f] : k \in 1..Len(apts)} |->
        {p \in 0..(Len(apts) - 1) : apts[p + 1][f] = v}]]

\* C8: a successful load leaves exactly the input's records at positions
\* 0..N-1 in input order and the indices of these records alone, whatever
\* the state before; and a successful load of the input just loaded leaves
\* the store and the indices as the first load left them.
C8_IdempotentReload ==
  [][(last' = "load" /\ status' = "ok")
       => /\ apartments' = StoreOf(loaded')
          /\ indices' = IndexOf(apartments')
          /\ (last = "load" /\ status = "ok" /\ loaded' = loaded)
               => (apartments' = apartments /\ indices' = indices)]_vars

\* A load of two records with a shared attribute value has succeeded.
C8_Witness ==
  /\ last = "load" /\ status = "ok" /\ Len(loaded) >= 2
  /\ apartments = StoreOf(loaded)
  /\ \E f \in Fields : \E v \in DOMAIN indices[f] : Cardinality(indices[f][v]) >= 2

Matches(p, crit) == apartments[p + 1][crit.field] = crit.value
LinearScan(criteria, op) ==
  IF op = "AND"
  THEN {p \in Positions : \A i \in 1..Len(criteria) : Matches(p, criteria[i])}
  ELSE {p \in Positions : \E i \in 1..Len(criteria) : Matches(p, criteria[i])}

\* C10: for non-empty criteria over searchable attributes, search returns
\* the records a linear scan of the store keeps (all criteria equal under
\* AND, at least one under OR), each once, in ascending position order.
C10_AgreesWithLinearScan ==
  \A c \in KnownCriteria : \A op \in Operators :
    c # <<>> => Here(c, op) = Returns(LinearScan(c, op))

\* A search over two attributes has returned every record of a store of
\* at least two records.
C10_Witness ==
  /\ last = "search" /\ Len(result) >= 2 /\ Len(result) = Len(apartments)
  /\ \E c \in Pairs : \E op \in Operators :
       result = Here(c, op).list /\ LinearScan(c, op) = Positions

\* C11: search changes neither the store nor any bucket of any index, and
\* creates no bucket, whatever the criteria and the operator.
C11_SearchIsReadOnly ==
  [][last' = "search" => (apartments' = apartments /\ indices' = indices)]_vars

\* A search over two attributes has narrowed or widened the running result
\* that a non-empty bucket seeded.
C11_Witness ==
  /\ last = "search"
  /\ \E c \in Pairs : \E op \in Operators :
       /\ result = Here(c, op).list
       /\ IdsOfSingle(c[1]) # {}
       /\ ResultIndices(indices, c, op).ids # IdsOfSingle(c[1])

\* Every bucket holds at least one position, and only positions of the store
\* whose record has the bucket's value for the index's attribute.
BucketsSound ==
  \A f \in Fields : \A v \in DOMAIN indices[f] :
    /\ indices[f][v] # {}
    /\ \A p \in indices[f][v] : p \in Positions /\ apartments[p + 1][f] = v

\* C12: in every reachable state every bucket of every index is non-empty
\* and holds only positions 0 <= p < size of the store whose record has the
\* bucket's value; and no search raises IndexError.
C12_BucketsInRange ==
  /\ BucketsSound
  /\ last = "search" => status = "ok"

\* A search has returned a record from a store holding fewer records than
\* a load can bring, with every index filled.
C12_Witness ==
  /\ last = "search" /\ status = "ok" /\ result # <<>>
  /\ Len(apartments) = 1
  /\ \A f \in Fields : DOMAIN indices[f] # {}
====
